---- MODULE Spec2Model ----
(***************************************************************************)
(* Calendar heatmap panel: daily aggregation (processTimeSeriesData),      *)
(* threshold table (getColorPalette) and the panel's render pass.          *)
(*                                                                         *)
(* Numbers.  An observation value and an aggregated value are exact        *)
(* rationals in thousandths ("milli"): 3000 is 3, 4 is 0.004.             *)
(* The inputs are chosen so that the double arithmetic of the             *)
(* program is exact on them or is nowhere near a comparison boundary.      *)
(* A threshold key is a triple <<h, m, e>> standing for                    *)
(*     h * Number.MAX_SAFE_INTEGER + m / 1000 + e * 1e-12                  *)
(* and is compared lexicographically (m / 1000 stays far below             *)
(* MAX_SAFE_INTEGER and e * 1e-12 far below 1 / 1000).                     *)
(***************************************************************************)
EXTENDS Integers, Sequences, FiniteSets, TLC

VARIABLES
  series, aggregation, timeZone, result,                \* processTimeSeriesData: arguments, return
  argScheme, argTheme, argCustomColor,                           \* colour arguments
  argMaxCount, argBucketMode, argCustomBuckets, palette, written, \* getColorPalette: arguments, return
  heatmapData, maxValue, colors,                        \* the panel's memoised values
  legendColors,                                         \* getLegendColors: return
  weekStart, timeRange,                                 \* options.weekStart, the time range prop
  weekLabelOptions, weekLabels,                         \* the week label options, the weekLabels memo
  shiftedStartDate, shiftedEndDate, shiftedHeatmapData, \* the panel's shifted memos
  tooltips, view,                                       \* what rectRender shows, what is returned
  calls                                                 \* invocations in progress

vars == <<series, aggregation, timeZone, result, argScheme, argTheme, argCustomColor,
          argMaxCount, argBucketMode, argCustomBuckets, palette, written,
          heatmapData, maxValue, colors, legendColors, weekStart, timeRange,
          weekLabelOptions, weekLabels,
          shiftedStartDate, shiftedEndDate, shiftedHeatmapData, tooltips, view, calls>>

(***************************************************************************)
(* Bounds of the model.                                                    *)
(***************************************************************************)
MaxFrames == 2
MaxObs == 2
MaxPieces == 4

(***************************************************************************)
(* Input alphabets.                                                        *)
(***************************************************************************)
\* instants, in hours since 1970-01-01T00:00Z:
\* 2023-12-31T20:00Z and 2024-01-01T02:00Z
Instants == {473348, 473354}

\* a cell of the value field: a number (in thousandths), null, undefined, NaN
Num(n) == <<"num", n>>
NULL == <<"null", 0>>
UNDEFINED == <<"undefined", 0>>
NAN == <<"NaN", 0>>

\* the rows the callers append: every cell once, late evening and early
\* morning instants alternating
Observations ==
  {<<473348, Num(3000)>>, <<473348, Num(4)>>, <<473348, NAN>>,
   <<473354, Num(-125)>>, <<473354, NULL>>, <<473354, UNDEFINED>>}

\* the fields a frame has: <<time field, number field>>
FrameFields == {<<TRUE, TRUE>>, <<TRUE, FALSE>>, <<FALSE, TRUE>>}

Aggregations == {"sum", "count", "avg", "max", "min", "median"}
KnownAggregations == {"sum", "count", "avg", "max", "min"}

\* the timeZone argument ("" is the absent argument)
TimeZones == {"utc", "Asia/Shanghai"}

\* offset from UTC, in hours, of the zone that decides the civil date;
\* an absent argument resolves to the environment's zone (here UTC+1)
ZoneOffset(tz) ==
  CASE tz = "utc" -> 0
    [] tz = "Asia/Shanghai" -> 8
    [] OTHER -> 1

(***************************************************************************)
(* dateTimeFormat(dateTime(timestamp), {format: 'YYYY/MM/DD', timeZone})   *)
(***************************************************************************)
\* proleptic Gregorian civil date of a day number (days since 1970-01-01)
CivilFromDays(days) ==
  LET z == days + 719468
      era == z \div 146097
      doe == z - era * 146097
      yoe == (doe - doe \div 1460 + doe \div 36524 - doe \div 146096) \div 365
      doy == doe - (365 * yoe + yoe \div 4 - yoe \div 100)
      mp == (5 * doy + 2) \div 153
      d == doy - (153 * mp + 2) \div 5 + 1
      m == IF mp < 10 THEN mp + 3 ELSE mp - 9
      y == yoe + era * 400 + (IF m <= 2 THEN 1 ELSE 0)
  IN [y |-> y, m |-> m, d |-> d]

\* character codes of the key string
SLASH == 47
Digit(n) == 48 + n

\* 'YYYY/MM/DD': 4-digit year, zero-padded month and day
FormatYMD(c) ==
  << Digit((c.y \div 1000) % 10), Digit((c.y \div 100) % 10),
     Digit((c.y \div 10) % 10), Digit(c.y % 10), SLASH,
     Digit(c.m \div 10), Digit(c.m % 10), SLASH,
     Digit(c.d \div 10), Digit(c.d % 10) >>

dateTimeFormat(timestamp, tz) ==
  FormatYMD(CivilFromDays((timestamp + ZoneOffset(tz)) \div 24))

\* a.localeCompare(b) on key strings: negative, zero or positive
RECURSIVE localeCompareFrom(_, _, _)
localeCompareFrom(a, b, i) ==
  IF i > Len(a) /\ i > Len(b) THEN 0
  ELSE IF i > Len(a) THEN -1
  ELSE IF i > Len(b) THEN 1
  ELSE IF a[i] < b[i] THEN -1
  ELSE IF a[i] > b[i] THEN 1
  ELSE localeCompareFrom(a, b, i + 1)

\* mutant: the operands of the comparison swapped
localeCompare_swapped(a, b) == localeCompareFrom(b, a, 1)

localeCompare(a, b) == localeCompareFrom(a, b, 1)

(***************************************************************************)
(* aggregate(values, method): the reduced value as a rational n / d in     *)
(* thousandths, d > 0.                                                      *)
(***************************************************************************)
RECURSIVE reduceSum(_, _, _)
reduceSum(values, i, acc) ==
  IF i > Len(values) THEN acc ELSE reduceSum(values, i + 1, acc + values[i])

RECURSIVE MathMax(_, _, _)
MathMax(values, i, acc) ==
  IF i > Len(values) THEN acc
  ELSE MathMax(values, i + 1, IF values[i] > acc THEN values[i] ELSE acc)

RECURSIVE MathMin(_, _, _)
MathMin(values, i, acc) ==
  IF i > Len(values) THEN acc
  ELSE MathMin(values, i + 1, IF values[i] < acc THEN values[i] ELSE acc)

\* mutant: 'count' adds the values up instead of counting them
aggregate_countSums(values, method) ==
  IF Len(values) = 0 THEN [n |-> 0, d |-> 1]
  ELSE CASE method = "sum" -> [n |-> reduceSum(values, 1, 0), d |-> 1]
         [] method = "count" -> [n |-> reduceSum(values, 1, 0), d |-> 1]
         [] method = "avg" -> [n |-> reduceSum(values, 1, 0), d |-> Len(values)]
         [] method = "max" -> [n |-> MathMax(values, 2, values[1]), d |-> 1]
         [] method = "min" -> [n |-> MathMin(values, 2, values[1]), d |-> 1]
         [] OTHER -> [n |-> reduceSum(values, 1, 0), d |-> 1]

aggregate(values, method) ==
  IF Len(values) = 0 THEN [n |-> 0, d |-> 1]
  ELSE CASE method = "sum" -> [n |-> reduceSum(values, 1, 0), d |-> 1]
         [] method = "count" -> [n |-> 1000 * Len(values), d |-> 1]
         [] method = "avg" -> [n |-> reduceSum(values, 1, 0), d |-> Len(values)]
         [] method = "max" -> [n |-> MathMax(values, 2, values[1]), d |-> 1]
         [] method = "min" -> [n |-> MathMin(values, 2, values[1]), d |-> 1]
         [] OTHER -> [n |-> reduceSum(values, 1, 0), d |-> 1]

(***************************************************************************)
(* processTimeSeriesData(series, aggregation, timeZone)                    *)
(***************************************************************************)
\* mutant: the isNaN test is missing, a NaN goes on as the number 0
IsDiscarded_withoutNaN(value) == value[1] \in {"null", "undefined"}

\* value === null || value === undefined || isNaN(value)
IsDiscarded(value) == value[1] \in {"null", "undefined", "NaN"}

\* dailyData: a Map, kept as the sequence of its entries in insertion order
dailyDataHas(dailyData, date) == \E k \in 1..Len(dailyData) : dailyData[k].date = date

dailyDataPush(dailyData, date, value) ==
  LET withKey == IF dailyDataHas(dailyData, date) THEN dailyData
                 ELSE Append(dailyData, [date |-> date, values |-> <<>>])
  IN [k \in 1..Len(withKey) |->
        IF withKey[k].date = date
        THEN [withKey[k] EXCEPT !.values = Append(@, value)]
        ELSE withKey[k]]

\* the loop over the rows of one frame
RECURSIVE groupRows(_, _, _, _)
groupRows(rows, i, tz, dailyData) ==
  IF i > Len(rows) THEN dailyData
  ELSE LET timestamp == rows[i][1]
           value == rows[i][2]
       IN IF IsDiscarded(value)
          THEN groupRows(rows, i + 1, tz, dailyData)
          ELSE groupRows(rows, i + 1, tz,
                         dailyDataPush(dailyData, dateTimeFormat(timestamp, tz), value[2]))

\* the loop over the frames
RECURSIVE groupFrames(_, _, _, _)
groupFrames(frames, j, tz, dailyData) ==
  IF j > Len(frames) THEN dailyData
  ELSE IF ~frames[j].timeField \/ ~frames[j].valueField
       THEN groupFrames(frames, j + 1, tz, dailyData)
       ELSE groupFrames(frames, j + 1, tz, groupRows(frames[j].rows, 1, tz, dailyData))

\* mutant: count < 0.01, a negative aggregated value is left out as well
IsSuppressed_negativeToo(count) == count.n < 10 * count.d

\* mutant: the test is on the magnitude, -0.01 < count < 0.01
IsSuppressed_absolute(count) == -10 * count.d < count.n /\ count.n < 10 * count.d

\* count >= 0 && count < 0.01
IsSuppressed(count) == count.n >= 0 /\ count.n < 10 * count.d

\* mutant: Math.floor in place of Math.round
RoundTo2_floor(count) == 10 * (count.n \div (10 * count.d))

\* Math.round(count * 100) / 100, in thousandths
\* (Math.round rounds to the nearest integer, a tie towards +Infinity)
RoundTo2(count) == 10 * ((count.n + 5 * count.d) \div (10 * count.d))

\* dailyData.forEach(...): the entries pushed, in insertion order
RECURSIVE pushEntries(_, _, _, _)
pushEntries(dailyData, k, method, res) ==
  IF k > Len(dailyData) THEN res
  ELSE LET count == aggregate(dailyData[k].values, method)
       IN IF IsSuppressed(count)
          THEN pushEntries(dailyData, k + 1, method, res)
          ELSE pushEntries(dailyData, k + 1, method,
                           Append(res, [date |-> dailyData[k].date, count |-> RoundTo2(count)]))

\* result.sort((a, b) => a.date.localeCompare(b.date)): stable insertion
RECURSIVE sortInsert(_, _)
sortInsert(sorted, x) ==
  IF sorted = <<>> THEN <<x>>
  ELSE IF localeCompare(sorted[Len(sorted)].date, x.date) <= 0
       THEN Append(sorted, x)
       ELSE Append(sortInsert(SubSeq(sorted, 1, Len(sorted) - 1), x), sorted[Len(sorted)])

RECURSIVE sortByDate(_, _, _)
sortByDate(res, k, sorted) ==
  IF k > Len(res) THEN sorted ELSE sortByDate(res, k + 1, sortInsert(sorted, res[k]))

\* mutant: a method outside the five cases yields no entry
processTimeSeriesData_knownOnly(frames, method, tz) ==
  IF method \in {"sum", "count", "avg", "max", "min"}
  THEN sortByDate(pushEntries(groupFrames(frames, 1, tz, <<>>), 1, method, <<>>), 1, <<>>)
  ELSE <<>>

processTimeSeriesData(frames, method, tz) ==
  sortByDate(pushEntries(groupFrames(frames, 1, tz, <<>>), 1, method, <<>>), 1, <<>>)

(***************************************************************************)
(* Numbers of the threshold table: <<h, m, e>> is                          *)
(* h * Number.MAX_SAFE_INTEGER + m / 1000 + e * 1e-12.                     *)
(***************************************************************************)
Key(m) == <<0, m, 0>>

KeyLess(a, b) ==
  \/ a[1] < b[1]
  \/ a[1] = b[1] /\ a[2] < b[2]
  \/ a[1] = b[1] /\ a[2] = b[2] /\ a[3] < b[3]

KeyPlus(a, b) == <<a[1] + b[1], a[2] + b[2], a[3] + b[3]>>

\* Math.max(a, b)
KeyMax(a, b) == IF KeyLess(a, b) THEN b ELSE a

MIN_COLORED_VALUE == Key(10)
MIN_EPS == <<0, 0, 1>>
MAX_SAFE_INTEGER == <<1, 0, 0>>

\* a number that may be NaN or infinite: the maxCount argument, Number(p)
Finite(m) == <<"finite", m>>
NotANumber == <<"NaN", 0>>
PlusInfinity == <<"Infinity", 0>>
MinusInfinity == <<"-Infinity", 0>>

\* Number.isFinite(x)
IsFinite(x) == x[1] = "finite"

(***************************************************************************)
(* Colours.  A colour string is a record: a colour of the theme has a      *)
(* name (shade and hue), an rgb(r, g, b) string has its three channels.    *)
(***************************************************************************)
ThemeColor(shade, hue) == [shade |-> shade, hue |-> hue, r |-> -1, g |-> -1, b |-> -1]

\* theme.colors.background.canvas
canvas(theme) == ThemeColor("canvas", IF theme.isDark THEN "dark" ELSE "light")

\* theme.visualization.getColorByName(`${shade}-${hue}`)
getColorByName(theme, shade, hue) == ThemeColor(shade, hue)

\* mutant: Math.floor in place of Math.round
clampByte_floor(n100) ==
  LET floored == n100 \div 100
      capped == IF floored < 255 THEN floored ELSE 255
  IN IF capped > 0 THEN capped ELSE 0

\* Math.max(0, Math.min(255, Math.round(n))), n given in hundredths
clampByte(n100) ==
  LET rounded == (n100 + 50) \div 100
      capped == IF rounded < 255 THEN rounded ELSE 255
  IN IF capped > 0 THEN capped ELSE 0

\* a colour string as typed: its format and the three numbers it spells;
\* parseColorToRgb gives the channels, or the string does not parse
Unparsed == [ok |-> FALSE, r |-> 0, g |-> 0, b |-> 0]

parseColorToRgb(input) ==
  CASE input.format = "#RGB" ->
         [ok |-> TRUE, r |-> 17 * input.c1, g |-> 17 * input.c2, b |-> 17 * input.c3]
    [] input.format = "#RRGGBB" ->
         [ok |-> TRUE, r |-> input.c1, g |-> input.c2, b |-> input.c3]
    [] input.format \in {"rgb()", "rgba()"} ->
         [ok |-> TRUE, r |-> clampByte(100 * input.c1), g |-> clampByte(100 * input.c2),
          b |-> clampByte(100 * input.c3)]
    [] OTHER -> Unparsed

\* `rgb(${clampByte(r)}, ${clampByte(g)}, ${clampByte(b)})`, channels in hundredths
rgbToCss(rgb100) ==
  [shade |-> "rgb", hue |-> "", r |-> clampByte(rgb100.r), g |-> clampByte(rgb100.g),
   b |-> clampByte(rgb100.b)]

\* a + (b - a) * t per channel; t in hundredths, the result in hundredths
mix(a, b, t100) ==
  [r |-> 100 * a.r + (b.r - a.r) * t100,
   g |-> 100 * a.g + (b.g - a.g) * t100,
   b |-> 100 * a.b + (b.b - a.b) * t100]

reverse(s) == [k \in 1..Len(s) |-> s[Len(s) + 1 - k]]

\* mutant: the levels are not reversed under a dark theme
buildCustomLevels_unreversed(base, theme) ==
  << rgbToCss(mix(base, [r |-> 255, g |-> 255, b |-> 255], 70)),
     rgbToCss(mix(base, [r |-> 255, g |-> 255, b |-> 255], 45)),
     rgbToCss(mix(base, [r |-> 0, g |-> 0, b |-> 0], 15)),
     rgbToCss(mix(base, [r |-> 0, g |-> 0, b |-> 0], 35)) >>

buildCustomLevels(base, theme) ==
  LET white == [r |-> 255, g |-> 255, b |-> 255]
      black == [r |-> 0, g |-> 0, b |-> 0]
      levels == << rgbToCss(mix(base, white, 70)), rgbToCss(mix(base, white, 45)),
                   rgbToCss(mix(base, black, 15)), rgbToCss(mix(base, black, 35)) >>
  IN IF theme.isDark THEN reverse(levels) ELSE levels

supportedSchemes == {"red", "orange", "yellow", "green", "blue", "purple"}

\* mutant: the scheme is used as the hue without looking it up in supportedSchemes
resolveColorLevels_anyHue(scheme, theme, customColor) ==
  LET rgb == IF scheme = "custom" THEN parseColorToRgb(customColor) ELSE Unparsed
      shades == IF theme.isDark
                THEN reverse(<<"super-light", "light", "semi-dark", "dark">>)
                ELSE <<"super-light", "light", "semi-dark", "dark">>
  IN [emptyColor |-> canvas(theme),
      levels |-> IF rgb.ok
                 THEN buildCustomLevels(rgb, theme)
                 ELSE [k \in 1..4 |-> getColorByName(theme, shades[k], scheme)]]

resolveColorLevels(scheme, theme, customColor) ==
  LET rgb == IF scheme = "custom" THEN parseColorToRgb(customColor) ELSE Unparsed
      hue == IF scheme \in supportedSchemes THEN scheme ELSE "green"
      shades == IF theme.isDark
                THEN reverse(<<"super-light", "light", "semi-dark", "dark">>)
                ELSE <<"super-light", "light", "semi-dark", "dark">>
  IN [emptyColor |-> canvas(theme),
      levels |-> IF rgb.ok
                 THEN buildCustomLevels(rgb, theme)
                 ELSE [k \in 1..4 |-> getColorByName(theme, shades[k], hue)]]

\* [emptyColor, ...levels]
getLegendColors(scheme, theme, customColor) ==
  LET resolved == resolveColorLevels(scheme, theme, customColor)
  IN <<resolved.emptyColor>> \o resolved.levels

(***************************************************************************)
(* parseStrictCustomBuckets(input).  The string is kept as the sequence of *)
(* the pieces between its commas: String(input).split(',').               *)
(***************************************************************************)
\* s.trim()
trim(s) == IF s = " 1" THEN "1" ELSE s

\* Number(p) of a trimmed, non-empty piece
NumberOf(p) ==
  CASE p = "0" -> Finite(0)
    [] p = "0.005" -> Finite(5)
    [] p = "0.01" -> Finite(10)
    [] p = "1" -> Finite(1000)
    [] p = "2" -> Finite(2000)
    [] p = "9" -> Finite(9000)
    [] p = "Infinity" -> PlusInfinity
    [] OTHER -> NotANumber

NonEmpty(s) == s # ""

\* mutant: the check nums[0] !== 0 is left out
parseStrictCustomBuckets_anyStart(input) ==
  LET parts == SelectSeq([k \in 1..Len(input) |-> trim(input[k])], NonEmpty)
      nums == [k \in 1..Len(parts) |-> NumberOf(parts[k])]
  IN IF Len(parts) # 4 THEN <<>>
     ELSE IF \E k \in 1..4 : ~IsFinite(nums[k]) THEN <<>>
     ELSE IF \E k \in 2..4 : ~(nums[k][2] > nums[k - 1][2]) THEN <<>>
     ELSE [k \in 1..4 |-> Key(nums[k][2])]

\* mutant: equal neighbours pass the comparison
parseStrictCustomBuckets_nonDecreasing(input) ==
  LET parts == SelectSeq([k \in 1..Len(input) |-> trim(input[k])], NonEmpty)
      nums == [k \in 1..Len(parts) |-> NumberOf(parts[k])]
  IN IF Len(parts) # 4 THEN <<>>
     ELSE IF \E k \in 1..4 : ~IsFinite(nums[k]) THEN <<>>
     ELSE IF nums[1][2] # 0 THEN <<>>
     ELSE IF \E k \in 2..4 : ~(nums[k][2] >= nums[k - 1][2]) THEN <<>>
     ELSE [k \in 1..4 |-> Key(nums[k][2])]

\* the edges, or <<>> for null
parseStrictCustomBuckets(input) ==
  LET parts == SelectSeq([k \in 1..Len(input) |-> trim(input[k])], NonEmpty)
      nums == [k \in 1..Len(parts) |-> NumberOf(parts[k])]
  IN IF Len(parts) # 4 THEN <<>>
     ELSE IF \E k \in 1..4 : ~IsFinite(nums[k]) THEN <<>>
     ELSE IF nums[1][2] # 0 THEN <<>>
     ELSE IF \E k \in 2..4 : ~(nums[k][2] > nums[k - 1][2]) THEN <<>>
     ELSE [k \in 1..4 |-> Key(nums[k][2])]

(***************************************************************************)
(* getColorPalette(scheme, theme, maxCount, customColor, bucketMode,       *)
(* customBuckets): the assignments to the table, in the order made.        *)
(***************************************************************************)
\* mutant: Math.floor in place of Math.ceil
safeMaxOf_floor(maxCount) ==
  IF IsFinite(maxCount)
  THEN LET floor == maxCount[2] \div 1000 IN IF floor > 0 THEN floor ELSE 0
  ELSE 0

\* Number.isFinite(maxCount) ? Math.max(0, Math.ceil(maxCount)) : 0
safeMaxOf(maxCount) ==
  IF IsFinite(maxCount)
  THEN LET ceil == -((-maxCount[2]) \div 1000) IN IF ceil > 0 THEN ceil ELSE 0
  ELSE 0

\* mutant: the inclusive cutoff is used as the key, without the + 1
desiredUpper_inclusive(safeMax, i) == (safeMax * i + 2) \div 4

\* Math.round(safeMax * shadeQuantiles[i]) + 1, shadeQuantiles = [0.25, 0.5, 0.75, 1]
desiredUpper(safeMax, i) == ((safeMax * i + 2) \div 4) + 1

\* the loop of auto mode, from level i on
RECURSIVE autoWrites(_, _, _, _)
autoWrites(safeMax, levels, i, prev) ==
  IF i > 4 THEN <<>>
  ELSE LET desired == desiredUpper(safeMax, i)
           upper == KeyMax(KeyPlus(prev, Key(1000)),
                           KeyMax(Key(2000), Key(1000 * desired)))
       IN <<[key |-> upper, color |-> levels[i]]>> \o autoWrites(safeMax, levels, i + 1, upper)

\* mutant: the levels of b2 and b3 are one too high
customWrites_shifted(edges, levels) ==
  LET firstUpper == KeyMax(edges[2], KeyPlus(MIN_COLORED_VALUE, MIN_EPS))
  IN << [key |-> firstUpper, color |-> levels[1]],
        [key |-> edges[3], color |-> levels[3]],
        [key |-> edges[4], color |-> levels[4]],
        [key |-> MAX_SAFE_INTEGER, color |-> levels[4]] >>

customWrites(edges, levels) ==
  LET firstUpper == KeyMax(edges[2], KeyPlus(MIN_COLORED_VALUE, MIN_EPS))
  IN << [key |-> firstUpper, color |-> levels[1]],
        [key |-> edges[3], color |-> levels[2]],
        [key |-> edges[4], color |-> levels[3]],
        [key |-> MAX_SAFE_INTEGER, color |-> levels[4]] >>

paletteWrites(scheme, theme, maxCount, customColor, bucketMode, customBuckets) ==
  LET resolved == resolveColorLevels(scheme, theme, customColor)
      emptyColor == resolved.emptyColor
      levels == resolved.levels
      min == MIN_COLORED_VALUE
      eps == MIN_EPS
      base == << [key |-> Key(0), color |-> emptyColor],
                 [key |-> min, color |-> emptyColor],
                 [key |-> KeyPlus(min, eps), color |-> levels[1]] >>
      edges == IF bucketMode = "custom" THEN parseStrictCustomBuckets(customBuckets) ELSE <<>>
  IN IF bucketMode = "custom" /\ edges # <<>>
     THEN base \o customWrites(edges, levels)
     ELSE base \o autoWrites(safeMaxOf(maxCount), levels, 1, KeyPlus(min, eps))

\* the object after the assignments: a later assignment to a key replaces
\* the earlier one
RECURSIVE assignAll(_, _, _)
assignAll(writes, k, table) ==
  IF k > Len(writes) THEN table
  ELSE assignAll(writes, k + 1, (writes[k].key :> writes[k].color) @@ table)

getColorPalette(scheme, theme, maxCount, customColor, bucketMode, customBuckets) ==
  LET writes == paletteWrites(scheme, theme, maxCount, customColor, bucketMode, customBuckets)
  IN assignAll(writes, 2, writes[1].key :> writes[1].color)

\* the keys in the order they were assigned
writtenKeys(scheme, theme, maxCount, customColor, bucketMode, customBuckets) ==
  LET writes == paletteWrites(scheme, theme, maxCount, customColor, bucketMode, customBuckets)
  IN [k \in 1..Len(writes) |-> writes[k].key]

(***************************************************************************)
(* The renderer (@uiw/react-heat-map): the colour of the smallest key      *)
(* strictly greater than the value; no colour when there is no such key.   *)
(***************************************************************************)
NoColor == ThemeColor("none", "")

KeysAbove(table, v) == {k \in DOMAIN table : KeyLess(v, k)}

pickColor(table, v) ==
  IF KeysAbove(table, v) = {} THEN NoColor
  ELSE table[CHOOSE k \in KeysAbove(table, v) :
               \A l \in KeysAbove(table, v) : l = k \/ KeyLess(k, l)]

(***************************************************************************)
(* The panel's render pass (CalendarHeatmapPanel): heatmapData, maxValue   *)
(* and colors as the memoised values are after a render.                   *)
(***************************************************************************)
\* heatmapData.length === 0 ? 0 : Math.max(...heatmapData.map((d) => d.count))
RECURSIVE maxCountFrom(_, _, _)
maxCountFrom(data, k, acc) ==
  IF k > Len(data) THEN acc
  ELSE maxCountFrom(data, k + 1, IF data[k].count > acc THEN data[k].count ELSE acc)

maxValueOf(data) ==
  IF Len(data) = 0 THEN Finite(0) ELSE Finite(maxCountFrom(data, 2, data[1].count))

\* the customBuckets argument left out: (customBuckets ?? '').split(',')
AbsentString == <<"">>

\* processTimeSeriesData(data.series, options.aggregation)
panelHeatmapData(frames, method) == processTimeSeriesData(frames, method, "")

\* getColorPalette(options.colorScheme, theme, maxValue, options.customColor)
panelColors(sch, th, mv, cc) == getColorPalette(sch, th, mv, cc, "auto", AbsentString)

(***************************************************************************)
(* Calendar alignment of the panel.  A Date is an instant in hours since   *)
(* 1970-01-01T00:00Z; its local fields are read in the browser's zone,     *)
(* here America/New_York: UTC-5, and UTC-4 from 2024-03-10 02:00 to        *)
(* 2024-11-03 02:00 local time.                                            *)
(***************************************************************************)
\* day numbers (days since 1970-01-01) of the two days the clock changes
DstStartDay == 19792
DstEndDay == 20030

\* offset from UTC, in hours, at the local midnight that begins day d
LocalOffsetAtMidnight(d) == IF d > DstStartDay /\ d <= DstEndDay THEN -4 ELSE -5

\* the instant of local midnight of day d
LocalMidnight(d) == 24 * d - LocalOffsetAtMidnight(d)

\* the local civil day an instant falls on
LocalDayOf(t) ==
  CHOOSE d \in ((t \div 24) - 1)..((t \div 24) + 1) :
     LocalMidnight(d) <= t /\ t < LocalMidnight(d + 1)

\* day number of a proleptic Gregorian civil date
DaysFromCivil(y, m, d) ==
  LET yy == IF m <= 2 THEN y - 1 ELSE y
      era == yy \div 400
      yoe == yy - era * 400
      mp == (m + 9) % 12
      doy == (153 * mp + 2) \div 5 + d - 1
      doe == yoe * 365 + yoe \div 4 - yoe \div 100 + doy
  IN era * 146097 + doe - 719468

\* new Date(y, m - 1, d): local midnight of that date
NewDate(y, m, d) == LocalMidnight(DaysFromCivil(y, m, d))

\* 24 * 60 * 60 * 1000 ms, in hours
DAY_MS == 24

\* new Date(date.getTime() + days * DAY_MS)
addDays(date, days) == date + days * DAY_MS

HYPHEN == 45

\* s.split(sep): the pieces between the separators
RECURSIVE splitFrom(_, _, _, _)
splitFrom(s, sep, i, cur) ==
  IF i > Len(s) THEN <<cur>>
  ELSE IF s[i] = sep THEN <<cur>> \o splitFrom(s, sep, i + 1, <<>>)
  ELSE splitFrom(s, sep, i + 1, Append(cur, s[i]))

includes(s, ch) == \E i \in 1..Len(s) : s[i] = ch

\* Number(x) of a piece of a date string: decimal digits give their value,
\* the empty piece gives 0, anything else NaN
RECURSIVE digitsValue(_, _, _)
digitsValue(x, i, acc) ==
  IF i > Len(x) THEN acc ELSE digitsValue(x, i + 1, 10 * acc + (x[i] - 48))

NumberOfPiece(x) ==
  IF \A i \in 1..Len(x) : x[i] >= 48 /\ x[i] <= 57
  THEN Finite(digitsValue(x, 1, 0))
  ELSE NotANumber

\* parseAnyYMD(dateStr): <<date>>, or <<>> for null
parseAnyYMD(dateStr) ==
  LET parts == IF includes(dateStr, SLASH) THEN splitFrom(dateStr, SLASH, 1, <<>>)
               ELSE IF includes(dateStr, HYPHEN) THEN splitFrom(dateStr, HYPHEN, 1, <<>>)
               ELSE <<>>
  IN IF Len(parts) # 3 THEN <<>>
     ELSE LET y == NumberOfPiece(parts[1])
              m == NumberOfPiece(parts[2])
              d == NumberOfPiece(parts[3])
          IN IF ~IsFinite(y) \/ ~IsFinite(m) \/ ~IsFinite(d) THEN <<>>
             ELSE <<NewDate(y[2], m[2], d[2])>>

\* toKey(date): getFullYear / getMonth + 1 / getDate, padded, 'YYYY/MM/DD'
toKey(date) == FormatYMD(CivilFromDays(LocalDayOf(date)))

\* options.weekStart === 'monday' ? -1 : 0
renderShiftDays(ws) == IF ws = "monday" THEN -1 ELSE 0

\* one element of heatmapData.map(...)
shiftEntry(d, shift) ==
  LET dt == parseAnyYMD(d.date)
  IN IF dt = <<>> THEN d
     ELSE [date |-> toKey(addDays(dt[1], shift)), count |-> d.count]

\* the shiftedHeatmapData memo
shiftHeatmapData(data, shift) ==
  IF shift = 0 THEN data ELSE [k \in 1..Len(data) |-> shiftEntry(data[k], shift)]

\* countByOriginalDate.get(key): the count set last for the key, or undefined
countByOriginalDate(data, key) ==
  LET hits == {k \in 1..Len(data) : data[k].date = key}
  IN IF hits = {} THEN UNDEFINED
     ELSE Num(data[CHOOSE k \in hits : \A l \in hits : l <= k].count)

\* String(cell.date).replace(/-/g, '/')
replaceHyphens(s) == [i \in 1..Len(s) |-> IF s[i] = HYPHEN THEN SLASH ELSE s[i]]

\* rectRender for the cell of a date: the key and the count of the tooltip
rectRender(cellDate, shift, data) ==
  LET renderedDate == parseAnyYMD(cellDate)
      originalKey == IF renderedDate # <<>>
                     THEN toKey(addDays(renderedDate[1], -shift))
                     ELSE replaceHyphens(cellDate)
  IN [originalKey |-> originalKey, originalCount |-> countByOriginalDate(data, originalKey)]

\* what the component returns: the no-data message, or the heat map
viewOf(frames) == IF Len(frames) = 0 THEN "noData" ELSE "heatmap"

(***************************************************************************)
(* The week labels of the panel.  A comma-separated text is kept as the    *)
(* sequence of the pieces between its commas.                              *)
(***************************************************************************)
\* String(input).split(',').map((s) => s.trim()).filter((s) => s.length > 0)
splitCsv(input) == SelectSeq([k \in 1..Len(input) |-> trim(input[k])], NonEmpty)

rotateWeek(labelsSunFirst, ws) ==
  IF Len(labelsSunFirst) # 7 THEN labelsSunFirst
  ELSE IF ws = "monday" THEN Tail(labelsSunFirst) \o <<labelsSunFirst[1]>>
  ELSE labelsSunFirst

\* the weekLabels prop 'false': no labels are drawn
NoWeekLabels == <<>>

DefaultWeekLabels == <<"Sun", "Mon", "Tue", "Wed", "Thu", "Fri", "Sat">>

\* the weekLabels memo
weekLabelsOf(opts, ws) ==
  IF ~opts.showWeekLabels THEN NoWeekLabels
  ELSE LET custom == splitCsv(opts.weekLabelCustom)
           labelsSunFirst ==
             IF opts.weekLabelMode = "number" THEN <<"1", "2", "3", "4", "5", "6", "7">>
             ELSE IF opts.weekLabelMode = "custom" /\ Len(custom) = 7 THEN custom
             ELSE DefaultWeekLabels
       IN rotateWeek(labelsSunFirst, ws)

\* the row of the grid a date is drawn in: date.getDay(), Sunday = 0
getDay(date) == (LocalDayOf(date) + 4) % 7

DefaultLabelOptions ==
  [showWeekLabels |-> TRUE, weekLabelMode |-> "default", weekLabelCustom |-> <<"">>]

(***************************************************************************)
(* State.                                                                  *)
(***************************************************************************)
TotalRows(frames) ==
  LET RECURSIVE cnt(_)
      cnt(j) == IF j > Len(frames) THEN 0 ELSE Len(frames[j].rows) + cnt(j + 1)
  IN cnt(1)

LightTheme == [isDark |-> FALSE]
DarkTheme == [isDark |-> TRUE]
NoCustomColor == [format |-> "", c1 |-> 0, c2 |-> 0, c3 |-> 0]

\* timeRange.from / timeRange.to: 2024-02-29T12:00Z .. 2024-03-12T12:00Z
FirstTimeRange == [from |-> 474780, to |-> 475068]

\* the activations of the functions: none is running
CallIds == {1, 2}
NoArgs ==
  [frames |-> <<>>, method |-> "sum", tz |-> "utc", scheme |-> "green",
   theme |-> LightTheme, maxCount |-> Finite(0), customColor |-> NoCustomColor,
   bucketMode |-> "auto", customBuckets |-> AbsentString]
NoReturn == [list |-> <<>>, table |-> <<>>, legend |-> <<>>]
NoLocals == [j |-> 1, dailyData |-> <<>>, writes |-> <<>>]
NoCalls ==
  [act |-> [c \in CallIds |-> [fn |-> "none", pc |-> "idle", args |-> NoArgs, ret |-> NoReturn]],
   locals |-> [c \in CallIds |-> NoLocals]]

Init ==
  /\ series = <<>>
  /\ aggregation = "sum"
  /\ timeZone = "utc"
  /\ result = processTimeSeriesData(<<>>, "sum", "utc")
  /\ argScheme = "green"
  /\ argTheme = LightTheme
  /\ argCustomColor = NoCustomColor
  /\ argMaxCount = Finite(0)
  /\ argBucketMode = "auto"
  /\ argCustomBuckets = AbsentString
  /\ palette = getColorPalette("green", LightTheme, Finite(0), NoCustomColor, "auto", AbsentString)
  /\ written = writtenKeys("green", LightTheme, Finite(0), NoCustomColor, "auto", AbsentString)
  /\ heatmapData = panelHeatmapData(<<>>, "sum")
  /\ maxValue = maxValueOf(heatmapData)
  /\ colors = panelColors("green", LightTheme, maxValue, NoCustomColor)
  /\ legendColors = getLegendColors("green", LightTheme, NoCustomColor)
  /\ weekStart = "sunday"
  /\ timeRange = FirstTimeRange
  /\ weekLabelOptions = DefaultLabelOptions
  /\ weekLabels = weekLabelsOf(DefaultLabelOptions, "sunday")
  /\ shiftedStartDate = addDays(FirstTimeRange.from, 0)
  /\ shiftedEndDate = addDays(FirstTimeRange.to, 0)
  /\ shiftedHeatmapData = shiftHeatmapData(heatmapData, 0)
  /\ tooltips = <<>>
  /\ view = viewOf(<<>>)
  /\ calls = NoCalls

aggVars == <<series, aggregation, timeZone, result>>
paletteVars == <<argMaxCount, argBucketMode, argCustomBuckets, palette, written>>
colorVars == <<argScheme, argTheme, argCustomColor, legendColors>>
panelVars == <<heatmapData, maxValue, colors, shiftedStartDate, shiftedEndDate,
               shiftedHeatmapData, tooltips, view, weekLabels>>
weekVars == <<weekStart, timeRange, weekLabelOptions>>

(***************************************************************************)
(* Spec: a caller that builds an input and calls processTimeSeriesData on  *)
(* every change of an argument.                                            *)
(***************************************************************************)
\* a frame is appended to the series; a frame lacking a field has no rows
\* the program could read
AddFrame ==
  /\ Len(series) < MaxFrames
  /\ \E f \in FrameFields :
       series' = Append(series, [timeField |-> f[1], valueField |-> f[2], rows |-> <<>>])
  /\ result' = processTimeSeriesData(series', aggregation, timeZone)
  /\ UNCHANGED <<aggregation, timeZone, paletteVars, colorVars, weekVars, calls, panelVars>>

\* a row is appended to the last frame
AddRow ==
  /\ Len(series) > 0
  /\ series[Len(series)].timeField /\ series[Len(series)].valueField
  /\ TotalRows(series) < MaxObs
  /\ \E row \in Observations :
       series' = [series EXCEPT ![Len(series)].rows = Append(@, row)]
  /\ result' = processTimeSeriesData(series', aggregation, timeZone)
  /\ UNCHANGED <<aggregation, timeZone, paletteVars, colorVars, weekVars, calls, panelVars>>

SetAggregation ==
  /\ \E a \in Aggregations : a # aggregation /\ aggregation' = a
  /\ result' = processTimeSeriesData(series, aggregation', timeZone)
  /\ UNCHANGED <<series, timeZone, paletteVars, colorVars, weekVars, calls, panelVars>>

SetTimeZone ==
  /\ \E z \in TimeZones : z # timeZone /\ timeZone' = z
  /\ result' = processTimeSeriesData(series, aggregation, timeZone')
  /\ UNCHANGED <<series, aggregation, paletteVars, colorVars, weekVars, calls, panelVars>>

Next == AddFrame \/ AddRow \/ SetAggregation \/ SetTimeZone

Spec == Init /\ [][Next]_vars

(***************************************************************************)
(* SpecPalette: a caller of getColorPalette that changes one argument at a *)
(* time and calls again.                                                   *)
(***************************************************************************)
MaxCounts == {Finite(m) : m \in {-1000, 0, 2500, 8000}} \cup {NotANumber}

BucketPieces == {"0", "0.005", "0.01", "1", "2", "9", "x"}

Rebuild ==
  /\ palette' = getColorPalette(argScheme', argTheme', argMaxCount', argCustomColor', argBucketMode', argCustomBuckets')
  /\ written' = writtenKeys(argScheme', argTheme', argMaxCount', argCustomColor', argBucketMode', argCustomBuckets')

SetMaxCount ==
  /\ \E m \in MaxCounts : m # argMaxCount /\ argMaxCount' = m
  /\ UNCHANGED <<argBucketMode, argCustomBuckets, colorVars, weekVars, calls, aggVars, panelVars>>
  /\ Rebuild

SetBucketMode ==
  /\ argBucketMode' = IF argBucketMode = "auto" THEN "custom" ELSE "auto"
  /\ UNCHANGED <<argMaxCount, argCustomBuckets, colorVars, weekVars, calls, aggVars, panelVars>>
  /\ Rebuild

\* the text of argCustomBuckets grows by ",piece" (by "piece" when it was empty)
AppendBucketPiece ==
  /\ \E piece \in BucketPieces :
       argCustomBuckets' = IF argCustomBuckets = AbsentString THEN <<piece>>
                        ELSE Append(argCustomBuckets, piece)
  /\ Len(argCustomBuckets') <= MaxPieces
  /\ UNCHANGED <<argMaxCount, argBucketMode, colorVars, weekVars, calls, aggVars, panelVars>>
  /\ Rebuild

ClearCustomBuckets ==
  /\ argCustomBuckets # AbsentString
  /\ argCustomBuckets' = AbsentString
  /\ UNCHANGED <<argMaxCount, argBucketMode, colorVars, weekVars, calls, aggVars, panelVars>>
  /\ Rebuild

NextPalette == SetMaxCount \/ SetBucketMode \/ AppendBucketPiece \/ ClearCustomBuckets

SpecPalette == Init /\ [][NextPalette]_vars

(***************************************************************************)
(* SpecColors: a caller of getColorPalette and getLegendColors that        *)
(* changes the scheme, the theme, the custom colour or the maximum.        *)
(***************************************************************************)
\* the six built-in hues, 'custom', and a name that is none of them
Schemes == supportedSchemes \cup {"custom", "teal"}

Themes == {LightTheme, DarkTheme}

\* undefined, '#fff', '#336699', 'rgb(300, 0, 128)', 'rgba(0, 0, 0, 0.5)',
\* 'steelblue', '#3366', 'rgb(250, 10, 30)', 'rgba(250, 10, 30, 0.25)',
\* 'rgba(250, 10, 30, 1)'
CustomColors ==
  { NoCustomColor,
    [format |-> "#RGB", c1 |-> 15, c2 |-> 15, c3 |-> 15],
    [format |-> "#RRGGBB", c1 |-> 51, c2 |-> 102, c3 |-> 153],
    [format |-> "rgb()", c1 |-> 300, c2 |-> 0, c3 |-> 128],
    [format |-> "rgba()", c1 |-> 0, c2 |-> 0, c3 |-> 0, alpha |-> 50],
    [format |-> "name", c1 |-> 0, c2 |-> 0, c3 |-> 0],
    [format |-> "#RRGG", c1 |-> 51, c2 |-> 102, c3 |-> 0],
    [format |-> "rgb()", c1 |-> 250, c2 |-> 10, c3 |-> 30],
    [format |-> "rgba()", c1 |-> 250, c2 |-> 10, c3 |-> 30, alpha |-> 25],
    [format |-> "rgba()", c1 |-> 250, c2 |-> 10, c3 |-> 30, alpha |-> 100] }

Relegend ==
  /\ legendColors' = getLegendColors(argScheme', argTheme', argCustomColor')
  /\ Rebuild

SetScheme ==
  /\ \E sch \in Schemes : sch # argScheme /\ argScheme' = sch
  /\ UNCHANGED <<argTheme, argCustomColor, argMaxCount, argBucketMode, argCustomBuckets,
                 aggVars, panelVars, weekVars, calls>>
  /\ Relegend

SetTheme ==
  /\ argTheme' = [isDark |-> ~argTheme.isDark]
  /\ UNCHANGED <<argScheme, argCustomColor, argMaxCount, argBucketMode, argCustomBuckets,
                 aggVars, panelVars, weekVars, calls>>
  /\ Relegend

SetCustomColor ==
  /\ \E cc \in CustomColors : cc # argCustomColor /\ argCustomColor' = cc
  /\ UNCHANGED <<argScheme, argTheme, argMaxCount, argBucketMode, argCustomBuckets,
                 aggVars, panelVars, weekVars, calls>>
  /\ Relegend

NextColors == SetScheme \/ SetTheme \/ SetCustomColor \/ SetMaxCount

SpecColors == Init /\ [][NextColors]_vars

(***************************************************************************)
(* SpecPanel: the panel re-renders on every change of data.series or of    *)
(* options.aggregation.                                                    *)
(***************************************************************************)
RenderPass ==
  /\ heatmapData' = panelHeatmapData(series', aggregation')
  /\ maxValue' = maxValueOf(heatmapData')
  /\ colors' = panelColors(argScheme', argTheme', maxValue', argCustomColor')
  /\ shiftedStartDate' = addDays(timeRange'.from, renderShiftDays(weekStart'))
  /\ shiftedEndDate' = addDays(timeRange'.to, renderShiftDays(weekStart'))
  /\ shiftedHeatmapData' = shiftHeatmapData(heatmapData', renderShiftDays(weekStart'))
  /\ weekLabels' = weekLabelsOf(weekLabelOptions', weekStart')
  /\ view' = viewOf(series')
  /\ tooltips' = IF view' = "noData" THEN <<>>
                 ELSE [k \in 1..Len(shiftedHeatmapData') |->
                         rectRender(shiftedHeatmapData'[k].date, renderShiftDays(weekStart'),
                                    heatmapData')]

DataAddFrame ==
  /\ Len(series) < MaxFrames
  /\ \E f \in FrameFields :
       series' = Append(series, [timeField |-> f[1], valueField |-> f[2], rows |-> <<>>])
  /\ UNCHANGED <<aggregation, timeZone, result, paletteVars, colorVars, weekVars, calls>>
  /\ RenderPass

DataAddRow ==
  /\ Len(series) > 0
  /\ series[Len(series)].timeField /\ series[Len(series)].valueField
  /\ TotalRows(series) < MaxObs
  /\ \E row \in Observations :
       series' = [series EXCEPT ![Len(series)].rows = Append(@, row)]
  /\ UNCHANGED <<aggregation, timeZone, result, paletteVars, colorVars, weekVars, calls>>
  /\ RenderPass

OptionAggregation ==
  /\ \E a \in Aggregations : a # aggregation /\ aggregation' = a
  /\ UNCHANGED <<series, timeZone, result, paletteVars, colorVars, weekVars, calls>>
  /\ RenderPass

NextPanel == DataAddFrame \/ DataAddRow \/ OptionAggregation

SpecPanel == Init /\ [][NextPanel]_vars

(***************************************************************************)
(* SpecWeek: the panel re-renders on a change of data.series, of           *)
(* options.weekStart or of the time range.                                 *)
(***************************************************************************)
\* 2023-12-31, 2024-01-01, 2024-02-29, 2024-03-01, 2024-03-10, 2024-03-11,
\* 2024-11-03, 2024-11-04 as day numbers
WeekDays == {19722, 19723, 19782, 19783, 19792, 19793, 20030, 20031}

\* one observation at 12:00Z of each of these days
WeekObservations == {<<24 * d + 12, Num(1000 * (1 + (d % 3)))>> : d \in WeekDays}

\* 2024-02-29T12:00Z .. 2024-03-12T12:00Z, 2023-12-31T20:00Z .. 2024-11-04T12:00Z
TimeRanges == {FirstTimeRange, [from |-> 473348, to |-> 480756]}

WeekAddRow ==
  /\ TotalRows(series) < MaxObs
  /\ \E row \in WeekObservations :
       series' = IF Len(series) = 0
                 THEN <<[timeField |-> TRUE, valueField |-> TRUE, rows |-> <<row>>]>>
                 ELSE [series EXCEPT ![1].rows = Append(@, row)]
  /\ UNCHANGED <<aggregation, timeZone, result, paletteVars, colorVars, weekVars, calls>>
  /\ RenderPass

OptionWeekStart ==
  /\ weekStart' = IF weekStart = "sunday" THEN "monday" ELSE "sunday"
  /\ UNCHANGED <<aggVars, paletteVars, colorVars, timeRange, weekLabelOptions, calls>>
  /\ RenderPass

TimeRangeChange ==
  /\ \E r \in TimeRanges : r # timeRange /\ timeRange' = r
  /\ UNCHANGED <<aggVars, paletteVars, colorVars, weekStart, weekLabelOptions, calls>>
  /\ RenderPass

NextWeek == WeekAddRow \/ OptionWeekStart \/ TimeRangeChange

SpecWeek == Init /\ [][NextWeek]_vars

(***************************************************************************)
(* SpecCalls: two invocations of the exported functions in progress at     *)
(* once, one statement block at a time.  The locals of an invocation       *)
(* (dailyData, result, palette, levels) are declared inside the function   *)
(* body: every invocation has its own.                                     *)
(***************************************************************************)
\* mutant: dailyData and palette are module-level, one for all invocations
ActivationOf_shared(c) == 1

\* where the locals of invocation c live
ActivationOf(c) == c

CallSeries ==
  { << [timeField |-> TRUE, valueField |-> TRUE,
        rows |-> << <<473348, Num(3000)>>, <<473348, Num(4)>> >>],
       [timeField |-> TRUE, valueField |-> TRUE, rows |-> << <<473354, Num(-125)>> >>] >>,
    << [timeField |-> TRUE, valueField |-> TRUE, rows |-> << <<473354, Num(3000)>> >>],
       [timeField |-> FALSE, valueField |-> TRUE, rows |-> <<>>] >> }

ProcessArgs ==
  {[NoArgs EXCEPT !.frames = f, !.method = m] : f \in CallSeries, m \in {"sum", "count"}}

ColorArgs ==
  {[NoArgs EXCEPT !.scheme = sc, !.theme = th,
                  !.customColor = [format |-> "#RRGGBB", c1 |-> 51, c2 |-> 102, c3 |-> 153]] :
     sc \in {"green", "custom"}, th \in Themes}

PaletteArgs ==
  {[a EXCEPT !.maxCount = Finite(8000), !.bucketMode = b[1], !.customBuckets = b[2]] :
     a \in ColorArgs, b \in {<<"auto", AbsentString>>, <<"custom", <<"0", "1", "2", "9">>>>}}

Invoke(c) ==
  /\ calls.act[c].pc = "idle"
  /\ \E fa \in ({"processTimeSeriesData"} \X ProcessArgs)
                \cup ({"getColorPalette"} \X PaletteArgs)
                \cup ({"getLegendColors"} \X ColorArgs) :
       calls' = [act |-> [calls.act EXCEPT ![c] =
                            [fn |-> fa[1], pc |-> "running", args |-> fa[2], ret |-> NoReturn]],
                 locals |-> [calls.locals EXCEPT ![ActivationOf(c)] = NoLocals]]
  /\ UNCHANGED <<aggVars, paletteVars, colorVars, panelVars, weekVars>>

\* one pass of the loop over the series, or the statements after it
StepProcess(c) ==
  /\ calls.act[c].pc = "running" /\ calls.act[c].fn = "processTimeSeriesData"
  /\ LET a == calls.act[c].args
         l == calls.locals[ActivationOf(c)]
     IN IF l.j <= Len(a.frames)
        THEN calls' = [calls EXCEPT !.locals[ActivationOf(c)] =
                         [l EXCEPT !.j = l.j + 1,
                                   !.dailyData =
                                      IF ~a.frames[l.j].timeField \/ ~a.frames[l.j].valueField
                                      THEN l.dailyData
                                      ELSE groupRows(a.frames[l.j].rows, 1, a.tz, l.dailyData)]]
        ELSE calls' = [calls EXCEPT
                         !.act[c].pc = "done",
                         !.act[c].ret.list =
                            sortByDate(pushEntries(l.dailyData, 1, a.method, <<>>), 1, <<>>)]
  /\ UNCHANGED <<aggVars, paletteVars, colorVars, panelVars, weekVars>>

\* the object literal of the base thresholds, then the rest of the body
StepPalette(c) ==
  /\ calls.act[c].pc = "running" /\ calls.act[c].fn = "getColorPalette"
  /\ LET a == calls.act[c].args
         l == calls.locals[ActivationOf(c)]
         writes == paletteWrites(a.scheme, a.theme, a.maxCount, a.customColor,
                                 a.bucketMode, a.customBuckets)
     IN IF l.writes = <<>>
        THEN calls' = [calls EXCEPT !.locals[ActivationOf(c)].writes = SubSeq(writes, 1, 3)]
        ELSE LET all == l.writes \o SubSeq(writes, 4, Len(writes))
             IN calls' = [calls EXCEPT
                            !.locals[ActivationOf(c)].writes = all,
                            !.act[c].pc = "done",
                            !.act[c].ret.table = assignAll(all, 2, all[1].key :> all[1].color)]
  /\ UNCHANGED <<aggVars, paletteVars, colorVars, panelVars, weekVars>>

StepLegend(c) ==
  /\ calls.act[c].pc = "running" /\ calls.act[c].fn = "getLegendColors"
  /\ LET a == calls.act[c].args
     IN calls' = [calls EXCEPT
                    !.act[c].pc = "done",
                    !.act[c].ret.legend = getLegendColors(a.scheme, a.theme, a.customColor)]
  /\ UNCHANGED <<aggVars, paletteVars, colorVars, panelVars, weekVars>>

\* the caller takes the result; the activation is gone
Return(c) ==
  /\ calls.act[c].pc = "done"
  /\ calls' = [act |-> [calls.act EXCEPT ![c] = NoCalls.act[c]],
               locals |-> [calls.locals EXCEPT ![ActivationOf(c)] = NoLocals]]
  /\ UNCHANGED <<aggVars, paletteVars, colorVars, panelVars, weekVars>>

NextCalls ==
  \E c \in CallIds :
     Invoke(c) \/ StepProcess(c) \/ StepPalette(c) \/ StepLegend(c) \/ Return(c)

SpecCalls == Init /\ [][NextCalls]_vars

(***************************************************************************)
(* SpecOptions: the panel re-renders on a change of data.series, of the    *)
(* theme or of an option that concerns the colours.  The options are       *)
(* argScheme (colorScheme), argCustomColor (customColor), argBucketMode    *)
(* (bucketMode) and argCustomBuckets (customBuckets).                      *)
(***************************************************************************)
DataChange ==
  /\ \E frames \in CallSeries \cup {<<>>} : frames # series /\ series' = frames
  /\ UNCHANGED <<aggregation, timeZone, result, paletteVars, colorVars, weekVars, calls>>
  /\ RenderPass

OptionColorScheme ==
  /\ \E sch \in {"green", "blue", "custom"} : sch # argScheme /\ argScheme' = sch
  /\ UNCHANGED <<aggVars, paletteVars, argTheme, argCustomColor, legendColors, weekVars, calls>>
  /\ RenderPass

OptionCustomColor ==
  /\ \E cc \in {NoCustomColor, [format |-> "#RRGGBB", c1 |-> 51, c2 |-> 102, c3 |-> 153]} :
       cc # argCustomColor /\ argCustomColor' = cc
  /\ UNCHANGED <<aggVars, paletteVars, argScheme, argTheme, legendColors, weekVars, calls>>
  /\ RenderPass

ThemeChange ==
  /\ argTheme' = [isDark |-> ~argTheme.isDark]
  /\ UNCHANGED <<aggVars, paletteVars, argScheme, argCustomColor, legendColors, weekVars, calls>>
  /\ RenderPass

OptionBucketMode ==
  /\ argBucketMode' = IF argBucketMode = "auto" THEN "custom" ELSE "auto"
  /\ UNCHANGED <<aggVars, argMaxCount, argCustomBuckets, palette, written, colorVars,
                 weekVars, calls>>
  /\ RenderPass

OptionCustomBuckets ==
  /\ \E cb \in {AbsentString, <<"0", "1", "2", "9">>} :
       cb # argCustomBuckets /\ argCustomBuckets' = cb
  /\ UNCHANGED <<aggVars, argMaxCount, argBucketMode, palette, written, colorVars,
                 weekVars, calls>>
  /\ RenderPass

NextOptions ==
  \/ DataChange \/ OptionColorScheme \/ OptionCustomColor \/ ThemeChange
  \/ OptionBucketMode \/ OptionCustomBuckets

SpecOptions == Init /\ [][NextOptions]_vars

(***************************************************************************)
(* SpecBuckets: a caller of getColorPalette that replaces the whole        *)
(* customBuckets text, switches the bucket mode or passes another maximum, *)
(* and calls again.                                                        *)
(***************************************************************************)
\* maxima in thousandths: negative, zero, below and at 0.01, small integers,
\* non-integers, larger ones; and the non-finite numbers
AllMaxCounts ==
  {Finite(m) : m \in {-1000, 0, 5, 10, 500, 1000, 1500, 2000, 2500, 3000, 3500, 4000,
                      5000, 6000, 7000, 8000, 9000, 10000, 12500}}
    \cup {NotANumber, PlusInfinity, MinusInfinity}

\* '0,1,2', '0,1,2,9,9', '0,1,2,x', '0,1,2,Infinity', '0,,1,2,9', '0,1,2,9,',
\* ',1,2,9', '0, 1,2,9', '0,1,2,9,x', 'x', '0,,1,2', and the string left out
OddBucketStrings ==
  { <<"0", "1", "2">>, <<"0", "1", "2", "9", "9">>, <<"0", "1", "2", "x">>,
    <<"0", "1", "2", "Infinity">>, <<"0", "", "1", "2", "9">>, <<"0", "1", "2", "9", "">>,
    <<"", "1", "2", "9">>, <<"0", " 1", "2", "9">>, <<"0", "1", "2", "9", "x">>, <<"x">>,
    <<"0", "", "1", "2">>, AbsentString }

\* four numbers: the first 0 or 0.01, then numbers in any order
BucketStrings ==
  {<<a, b, c, d>> : a \in {"0", "0.01"}, b \in {"0.01", "1", "2"},
                    c \in {"0.01", "1", "2"}, d \in {"1", "2", "9"}} \cup OddBucketStrings

SetCustomBuckets ==
  /\ \E cb \in BucketStrings : cb # argCustomBuckets /\ argCustomBuckets' = cb
  /\ UNCHANGED <<argMaxCount, argBucketMode, colorVars, weekVars, calls, aggVars, panelVars>>
  /\ Rebuild

SetAnyMaxCount ==
  /\ \E m \in AllMaxCounts : m # argMaxCount /\ argMaxCount' = m
  /\ UNCHANGED <<argBucketMode, argCustomBuckets, colorVars, weekVars, calls, aggVars, panelVars>>
  /\ Rebuild

NextBuckets == SetCustomBuckets \/ SetBucketMode \/ SetAnyMaxCount

SpecBuckets == Init /\ [][NextBuckets]_vars

(***************************************************************************)
(* SpecNearZero: a caller of processTimeSeriesData whose observations lie  *)
(* around zero and around the threshold 0.01.                              *)
(***************************************************************************)
\* the values -0.125, -0.004, 0, 0.004 and 0.01 on one day
NearZeroObservations == {<<473348, Num(n)>> : n \in {-125, -4, 0, 4, 10}}

AddNearZeroRow ==
  /\ Len(series) > 0
  /\ series[Len(series)].timeField /\ series[Len(series)].valueField
  /\ TotalRows(series) < MaxObs
  /\ \E row \in NearZeroObservations :
       series' = [series EXCEPT ![Len(series)].rows = Append(@, row)]
  /\ result' = processTimeSeriesData(series', aggregation, timeZone)
  /\ UNCHANGED <<aggregation, timeZone, paletteVars, colorVars, weekVars, calls, panelVars>>

NextNearZero == AddFrame \/ AddNearZeroRow \/ SetAggregation

SpecNearZero == Init /\ [][NextNearZero]_vars

(***************************************************************************)
(* SpecZone: the panel re-renders when data.series changes and when the    *)
(* dashboard's timezone (the timeZone prop of the panel) changes.          *)
(***************************************************************************)
DashboardTimeZoneChange ==
  /\ \E z \in TimeZones : z # timeZone /\ timeZone' = z
  /\ UNCHANGED <<series, aggregation, result, paletteVars, colorVars, weekVars, calls>>
  /\ RenderPass

NextZone == DataAddFrame \/ DataAddRow \/ DashboardTimeZoneChange

SpecZone == Init /\ [][NextZone]_vars

(***************************************************************************)
(* SpecSigned: the panel re-renders on data whose observations are         *)
(* negative, around zero and positive.                                     *)
(***************************************************************************)
\* -1.5 and -0.004 on one day, -0.125, 0.004 and 2 on the next
SignedObservations ==
  {<<473348, Num(-1500)>>, <<473348, Num(-4)>>, <<473354, Num(-125)>>,
   <<473354, Num(4)>>, <<473354, Num(2000)>>}

DataAddSignedRow ==
  /\ Len(series) > 0
  /\ series[Len(series)].timeField /\ series[Len(series)].valueField
  /\ TotalRows(series) < MaxObs
  /\ \E row \in SignedObservations :
       series' = [series EXCEPT ![Len(series)].rows = Append(@, row)]
  /\ UNCHANGED <<aggregation, timeZone, result, paletteVars, colorVars, weekVars, calls>>
  /\ RenderPass

NextSigned == DataAddFrame \/ DataAddSignedRow \/ OptionAggregation

SpecSigned == Init /\ [][NextSigned]_vars

(***************************************************************************)
(* SpecLabels: the panel re-renders when data.series, options.weekStart or *)
(* the week label options change.                                          *)
(***************************************************************************)
\* default labels, numbers, 'S,M,T,W,R,F,A', 'S,,M,T,W,R,F,A', 'a,b,c,d,e,f',
\* and labels hidden
LabelOptions ==
  { DefaultLabelOptions,
    [showWeekLabels |-> TRUE, weekLabelMode |-> "number", weekLabelCustom |-> <<"">>],
    [showWeekLabels |-> TRUE, weekLabelMode |-> "custom",
     weekLabelCustom |-> <<"S", "M", "T", "W", "R", "F", "A">>],
    [showWeekLabels |-> TRUE, weekLabelMode |-> "custom",
     weekLabelCustom |-> <<"S", "", "M", "T", "W", "R", "F", "A">>],
    [showWeekLabels |-> TRUE, weekLabelMode |-> "custom",
     weekLabelCustom |-> <<"a", "b", "c", "d", "e", "f">>],
    [showWeekLabels |-> FALSE, weekLabelMode |-> "default", weekLabelCustom |-> <<"">>] }

OptionWeekLabels ==
  /\ \E o \in LabelOptions : o # weekLabelOptions /\ weekLabelOptions' = o
  /\ UNCHANGED <<aggVars, paletteVars, colorVars, weekStart, timeRange, calls>>
  /\ RenderPass

NextLabels == WeekAddRow \/ OptionWeekStart \/ OptionWeekLabels

SpecLabels == Init /\ [][NextLabels]_vars

(***************************************************************************)
(* What the claims speak about, defined on the input and not by the        *)
(* program's algorithm.                                                    *)
(***************************************************************************)
\* the readable observations: row i of a frame j that has both fields
Positions ==
  {p \in (1..Len(series)) \X (1..MaxObs + 1) :
     /\ series[p[1]].timeField /\ series[p[1]].valueField
     /\ p[2] <= Len(series[p[1]].rows)}

CellAt(p) == series[p[1]].rows[p[2]][2]
InstantAt(p) == series[p[1]].rows[p[2]][1]

\* the valid observations: the value is a number
ValidPositions == {p \in Positions : CellAt(p)[1] = "num"}

\* the civil day of an instant in the zone of the call
DayOf(t) == dateTimeFormat(t, timeZone)
AllDays == {DayOf(t) : t \in Instants}

\* the group of a day: the valid observations that resolve to it
GroupOf(day) == {p \in ValidPositions : DayOf(InstantAt(p)) = day}

RECURSIVE SumOver(_)
SumOver(ps) ==
  IF ps = {} THEN 0
  ELSE LET p == CHOOSE q \in ps : TRUE IN CellAt(p)[2] + SumOver(ps \ {p})

Largest(ps) == CHOOSE v \in {CellAt(p)[2] : p \in ps} : \A q \in ps : CellAt(q)[2] <= v
Smallest(ps) == CHOOSE v \in {CellAt(p)[2] : p \in ps} : \A q \in ps : v <= CellAt(q)[2]

\* the aggregated value of a non-empty group, as a rational n / d (thousandths)
Expected(ps, method) ==
  CASE method = "sum" -> [n |-> SumOver(ps), d |-> 1]
    [] method = "count" -> [n |-> 1000 * Cardinality(ps), d |-> 1]
    [] method = "avg" -> [n |-> SumOver(ps), d |-> Cardinality(ps)]
    [] method = "max" -> [n |-> Largest(ps), d |-> 1]
    [] method = "min" -> [n |-> Smallest(ps), d |-> 1]

\* a < b on key strings, character by character
StrLess(a, b) ==
  \E k \in 1..Len(b) :
     /\ \A l \in 1..(k - 1) : l <= Len(a) /\ a[l] = b[l]
     /\ (k > Len(a) \/ a[k] < b[k])

EntriesOf(day) == {k \in 1..Len(result) : result[k].date = day}

(***************************************************************************)
(* C1: the list returned by processTimeSeriesData is sorted strictly       *)
(* ascending by its date strings, hence holds no date twice, whatever the  *)
(* series, the method and the timezone.                                    *)
(***************************************************************************)
C1_UniqueAscending ==
  \A i \in 1..Len(result) : \A j \in 1..Len(result) :
     i < j => StrLess(result[i].date, result[j].date)

\* two series, the later instant first, and two days in the output
C1_Witness ==
  /\ Len(series) = 2
  /\ Len(series[1].rows) = 1 /\ Len(series[2].rows) = 1
  /\ series[1].rows[1][1] > series[2].rows[1][1]
  /\ Len(result) = 2

(***************************************************************************)
(* C2: the entry of a day holds, up to the rounding to 2 decimals (at most *)
(* half a cent away), the sum / number / mean / largest / smallest of the  *)
(* valid observations of that day, and there is one entry at most.         *)
(***************************************************************************)
C2_AggregatedValue ==
  aggregation \in KnownAggregations =>
    \A day \in AllDays :
       /\ Cardinality(EntriesOf(day)) <= 1
       /\ \A k \in EntriesOf(day) :
            /\ GroupOf(day) # {}
            /\ LET x == Expected(GroupOf(day), aggregation)
                   diff == result[k].count * x.d - x.n
               IN -5 * x.d <= diff /\ diff <= 5 * x.d

\* two valid observations of different magnitude on one day, averaged
C2_Witness ==
  /\ aggregation = "avg"
  /\ \E day \in AllDays :
       /\ Cardinality(GroupOf(day)) = 2
       /\ Largest(GroupOf(day)) # Smallest(GroupOf(day))
       /\ EntriesOf(day) # {}

(***************************************************************************)
(* C3: null, undefined and NaN observations are discarded before grouping: *)
(* the output is the output for the input without them.                    *)
(***************************************************************************)
IsNumberRow(row) == row[2][1] = "num"

WithoutDiscarded(frames) ==
  [j \in 1..Len(frames) |-> [frames[j] EXCEPT !.rows = SelectSeq(@, IsNumberRow)]]

C3_DiscardedIgnored ==
  result = processTimeSeriesData(WithoutDiscarded(series), aggregation, timeZone)

\* a NaN and a number on the same day, counted
C3_Witness ==
  /\ aggregation = "count"
  /\ \E p \in Positions : \E q \in ValidPositions :
        /\ CellAt(p) = NAN
        /\ DayOf(InstantAt(p)) = DayOf(InstantAt(q))
        /\ EntriesOf(DayOf(InstantAt(q))) # {}

(***************************************************************************)
(* C4: the output has an entry for a day exactly when a valid observation  *)
(* resolves to that day and the aggregated value of the day is not in      *)
(* [0, 0.01); nothing else is in the output.                               *)
(***************************************************************************)
InNegligibleRange(x) == 0 <= x.n /\ x.n < 10 * x.d

C4_EntryIffObserved ==
  aggregation \in KnownAggregations =>
    /\ \A k \in 1..Len(result) : result[k].date \in AllDays
    /\ \A day \in AllDays :
         EntriesOf(day) # {} <=>
           /\ GroupOf(day) # {}
           /\ ~InNegligibleRange(Expected(GroupOf(day), aggregation))

\* one day is observed and left out, another day is observed and present
C4_Witness ==
  /\ aggregation = "sum"
  /\ \E d1 \in AllDays : GroupOf(d1) # {} /\ EntriesOf(d1) = {}
  /\ \E d2 \in AllDays : GroupOf(d2) # {} /\ EntriesOf(d2) # {}

(***************************************************************************)
(* C5: the stored value is the aggregated value rounded to 2 decimals.     *)
(* As claimed: a tie between two cents goes away from zero.                *)
(* As the code does it: a tie goes up (towards +Infinity).                 *)
(***************************************************************************)
\* c cents is x = n / d thousandths rounded, a tie going up:
\*   c - 1/2 <= x / 10 < c + 1/2
IsRoundedTieUp(count, x) ==
  /\ count % 10 = 0
  /\ (2 * (count \div 10) - 1) * 10 * x.d <= 2 * x.n
  /\ 2 * x.n < (2 * (count \div 10) + 1) * 10 * x.d

\* a tie going away from zero: up for x >= 0, down for x < 0
IsRoundedTieAway(count, x) ==
  /\ count % 10 = 0
  /\ IF x.n >= 0
     THEN /\ (2 * (count \div 10) - 1) * 10 * x.d <= 2 * x.n
          /\ 2 * x.n < (2 * (count \div 10) + 1) * 10 * x.d
     ELSE /\ (2 * (count \div 10) - 1) * 10 * x.d < 2 * x.n
          /\ 2 * x.n <= (2 * (count \div 10) + 1) * 10 * x.d

\* C5, the claim as stated: ties away from zero, for either sign
C5_RoundHalfAwayFromZero ==
  aggregation \in KnownAggregations =>
    \A k \in 1..Len(result) :
       GroupOf(result[k].date) # {} =>
         IsRoundedTieAway(result[k].count, Expected(GroupOf(result[k].date), aggregation))

\* C5, amended: the stored value is the aggregated value rounded to 2
\* decimals, a value half-way between two cents going to the higher cent
\* (away from zero when positive, towards zero when negative).
C5_RoundHalfUp ==
  aggregation \in KnownAggregations =>
    \A k \in 1..Len(result) :
       GroupOf(result[k].date) # {} =>
         IsRoundedTieUp(result[k].count, Expected(GroupOf(result[k].date), aggregation))

IsTie(x) == (2 * x.n) % (20 * x.d) = 10 * x.d

\* a negative half-way value is in the output: -0.125 stored as -0.12
C5_Witness ==
  /\ aggregation = "sum"
  /\ \E k \in 1..Len(result) :
        /\ GroupOf(result[k].date) # {}
        /\ LET x == Expected(GroupOf(result[k].date), aggregation)
           IN IsTie(x) /\ x.n < 0 /\ result[k].count = -120

(***************************************************************************)
(* The threshold table in the claims' words.                               *)
(***************************************************************************)
EmptyColor == resolveColorLevels(argScheme, argTheme, argCustomColor).emptyColor
Level(i) == resolveColorLevels(argScheme, argTheme, argCustomColor).levels[i]
ColouredLevels == {Level(i) : i \in 1..4}

\* the values looked up, in thousandths
Probes == {0, 5, 9, 10, 11, 500, 1000, 1500, 2000, 5000, 9000, 20000}

LargestKey(table) == CHOOSE k \in DOMAIN table : \A l \in DOMAIN table : l = k \/ KeyLess(l, k)

(***************************************************************************)
(* C6: under the renderer's rule every table returned by getColorPalette   *)
(* gives the empty colour to every value in [0, 0.01) and one of the four  *)
(* coloured levels to every value from 0.01 on (the values the table       *)
(* covers: those below its largest key).                                   *)
(***************************************************************************)
C6_EmptyBelowMinColored ==
  \A v \in Probes :
     KeyLess(Key(v), LargestKey(palette)) =>
       IF v < 10
       THEN pickColor(palette, Key(v)) = EmptyColor
       ELSE pickColor(palette, Key(v)) \in ColouredLevels

(***************************************************************************)
(* C7: the keys getColorPalette writes into the table, in the order it     *)
(* writes them, are strictly increasing.                                   *)
(***************************************************************************)
C7_WrittenKeysIncrease ==
  \A i \in 1..Len(written) : \A j \in 1..Len(written) :
     i < j => KeyLess(written[i], written[j])

(***************************************************************************)
(* C8: in every table returned by getColorPalette key 0 and key 0.01 map   *)
(* to the empty colour and the largest key maps to level4.                 *)
(***************************************************************************)
C8_BoundaryKeys ==
  /\ Key(0) \in DOMAIN palette /\ palette[Key(0)] = EmptyColor
  /\ MIN_COLORED_VALUE \in DOMAIN palette /\ palette[MIN_COLORED_VALUE] = EmptyColor
  /\ palette[LargestKey(palette)] = Level(4)

(***************************************************************************)
(* C9: in a render pass every daily value handed to the renderer has a     *)
(* table key strictly greater than it, in the table the panel builds from  *)
(* the maximum of the daily values (auto mode) and in the table of custom  *)
(* mode for the same maximum.                                              *)
(***************************************************************************)
ValidEdgeStrings == {<<"0", "1", "2", "9">>, <<"0", "0.005", "0.01", "1">>, <<"0", "0.01", "1", "2">>}

IsC10Call == argBucketMode = "custom" /\ argCustomBuckets = <<"0", "1", "2", "9">>

C10Picks == [k \in 1..4 |-> pickColor(palette, Key(<<500, 1500, 5000, 20000>>[k]))]

\* C10, the claim as stated: empty, level1, level2, level3
C10_AsClaimed ==
  IsC10Call => C10Picks = <<EmptyColor, Level(1), Level(2), Level(3)>>

\* C10, amended: with bucketMode 'custom' and customBuckets "0,1,2,9" the
\* values 0.5, 1.5, 5 and 20 resolve to level1, level2, level3 and level4.
C10_OneLevelHigher ==
  IsC10Call => C10Picks = <<Level(1), Level(2), Level(3), Level(4)>>

C10_Witness == IsC10Call /\ Len(written) = 7

(***************************************************************************)
(* C11: in custom mode with an invalid customBuckets (missing, not four    *)
(* numbers, not starting at 0, not strictly increasing) getColorPalette    *)
(* returns the table of auto mode for the same scheme, theme, maximum and  *)
(* custom colour, and the keys it writes are strictly increasing.          *)
(***************************************************************************)
\* an edge list that is not "four numbers, the first 0, strictly increasing"
InvalidEdgeList(cb) ==
  \/ cb = AbsentString
  \/ Len(cb) # 4
  \/ \E k \in 1..Len(cb) : ~IsFinite(NumberOf(cb[k]))
  \/ NumberOf(cb[1]) # Finite(0)
  \/ \E k \in 2..Len(cb) : NumberOf(cb[k])[2] <= NumberOf(cb[k - 1])[2]

C11_InvalidFallsBackToAuto ==
  (argBucketMode = "custom" /\ InvalidEdgeList(argCustomBuckets)) =>
     /\ palette = getColorPalette(argScheme, argTheme, argMaxCount, argCustomColor,
                                  "auto", AbsentString)
     /\ \A i \in 1..Len(written) : \A j \in 1..Len(written) :
           i < j => KeyLess(written[i], written[j])

\* four increasing numbers that do not start at 0, and a maximum of 8
C11_Witness ==
  /\ argBucketMode = "custom"
  /\ argCustomBuckets = <<"0.005", "0.01", "1", "2">>
  /\ argMaxCount = Finite(8000)
  /\ Len(written) = 7

(***************************************************************************)
(* C12: for one scheme and one custom colour, the four levels under a dark *)
(* theme are the levels under a light theme in reverse order (level i of   *)
(* the one is level 5 - i of the other), on the built-in path (a level is  *)
(* the shade asked of the theme) and on the custom-colour path; the empty  *)
(* colour stays first and is the canvas of the theme.                      *)
(***************************************************************************)
OtherTheme == [isDark |-> ~argTheme.isDark]

SmallestKey(keys) == CHOOSE k \in keys : \A l \in keys : l = k \/ KeyLess(k, l)

\* the colours of the keys, by ascending key
RECURSIVE ColoursAscending(_, _)
ColoursAscending(table, keys) ==
  IF keys = {} THEN <<>>
  ELSE LET k == SmallestKey(keys)
       IN <<table[k]>> \o ColoursAscending(table, keys \ {k})

RECURSIVE DropRepeats(_)
DropRepeats(cs) ==
  IF Len(cs) <= 1 THEN cs
  ELSE IF cs[1] = cs[2] THEN DropRepeats(Tail(cs))
  ELSE <<cs[1]>> \o DropRepeats(Tail(cs))

C13_LegendMatchesTable ==
  /\ legendColors = <<EmptyColor, Level(1), Level(2), Level(3), Level(4)>>
  /\ DropRepeats(ColoursAscending(palette, DOMAIN palette)) = legendColors

(***************************************************************************)
(* C14: for offset 0 and offset -1, un-shifting the rendered date of a day *)
(* with data gives the day's own YYYY/MM/DD key, and the tooltip lookup    *)
(* finds the day's aggregated value.                                       *)
(***************************************************************************)
C14_UnshiftRecoversDate ==
  view = "heatmap" =>
    /\ Len(tooltips) = Len(heatmapData)
    /\ \A k \in 1..Len(heatmapData) :
         /\ tooltips[k].originalKey = heatmapData[k].date
         /\ tooltips[k].originalCount = Num(heatmapData[k].count)

(***************************************************************************)
(* C15: after any changes of weekStart and re-renders, the range start,    *)
(* the range end and every daily date handed to the renderer are the       *)
(* original ones moved by the current offset (-1 day for monday, 0 for     *)
(* sunday); counts and the number of entries are unchanged; with sunday    *)
(* the renderer gets the aggregator's output itself.                       *)
(***************************************************************************)
CurrentOffset == IF weekStart = "monday" THEN -1 ELSE 0

\* the day number a date string names
DayNumberOf(date) ==
  CHOOSE d \in {w + o : w \in WeekDays, o \in {-1, 0, 1}} : FormatYMD(CivilFromDays(d)) = date

C15_ShiftedByCurrentOffset ==
  /\ shiftedStartDate = timeRange.from + 24 * CurrentOffset
  /\ shiftedEndDate = timeRange.to + 24 * CurrentOffset
  /\ Len(shiftedHeatmapData) = Len(heatmapData)
  /\ \A k \in 1..Len(heatmapData) :
       /\ shiftedHeatmapData[k].count = heatmapData[k].count
       /\ shiftedHeatmapData[k].date =
            FormatYMD(CivilFromDays(DayNumberOf(heatmapData[k].date) + CurrentOffset))
  /\ weekStart = "sunday" => shiftedHeatmapData = heatmapData

(***************************************************************************)
(* C16: with scheme 'custom' and a missing or unparseable customColor, and *)
(* with a scheme that is neither 'custom' nor a built-in hue,              *)
(* getLegendColors and getColorPalette give what they give for 'green'     *)
(* under the same theme.                                                   *)
(***************************************************************************)
\* hex of 3 or 6 digits, rgb(...) or rgba(...)
IsParseableColor(cc) == cc.format \in {"#RGB", "#RRGGBB", "rgb()", "rgba()"}

NeedsDefaultHue ==
  \/ argScheme = "custom" /\ ~IsParseableColor(argCustomColor)
  \/ argScheme \notin {"red", "orange", "yellow", "green", "blue", "purple", "custom"}

C16_FallsBackToGreen ==
  NeedsDefaultHue =>
    /\ legendColors = getLegendColors("green", argTheme, argCustomColor)
    /\ palette = getColorPalette("green", argTheme, argMaxCount, argCustomColor,
                                 argBucketMode, argCustomBuckets)
    /\ \A i \in 1..4 : legendColors[1 + i].hue = "green"

\* 'custom' with '#3366' under a dark theme
C16_Witness ==
  /\ argScheme = "custom"
  /\ argCustomColor.format = "#RRGG"
  /\ argTheme.isDark
  /\ legendColors[2].shade = "dark"

(***************************************************************************)
(* C17: for a method that is none of sum, count, avg, max, min the output  *)
(* of processTimeSeriesData is the output for 'sum' on the same input.     *)
(***************************************************************************)
C17_UnknownMethodIsSum ==
  aggregation \notin {"sum", "count", "avg", "max", "min"} =>
    /\ result = processTimeSeriesData(series, "sum", timeZone)
    /\ \A k \in 1..Len(result) :
         IsRoundedTieUp(result[k].count, [n |-> SumOver(GroupOf(result[k].date)), d |-> 1])

\* 'median' on a day with the two observations 3 and 0.004: 3 (the sum
\* 3.004 rounded), where 'avg' gives 1.5 and 'count' 2
C17_Witness ==
  /\ aggregation = "median"
  /\ \E k \in 1..Len(result) :
        /\ Cardinality(GroupOf(result[k].date)) = 2
        /\ SumOver(GroupOf(result[k].date)) = 3004
        /\ result[k].count = 3000

(***************************************************************************)
(* C18: under any interleaving of invocations of processTimeSeriesData,    *)
(* getColorPalette and getLegendColors each invocation returns what it     *)
(* returns when it runs alone on its arguments, two invocations with the   *)
(* same arguments return equal results, and no step of an invocation       *)
(* changes the arguments it was given.                                     *)
(***************************************************************************)
\* what the function returns when nothing else runs
Alone(fn, a) ==
  CASE fn = "processTimeSeriesData" ->
         [NoReturn EXCEPT !.list = processTimeSeriesData(a.frames, a.method, a.tz)]
    [] fn = "getColorPalette" ->
         [NoReturn EXCEPT !.table = getColorPalette(a.scheme, a.theme, a.maxCount, a.customColor,
                                                    a.bucketMode, a.customBuckets)]
    [] fn = "getLegendColors" ->
         [NoReturn EXCEPT !.legend = getLegendColors(a.scheme, a.theme, a.customColor)]

C18_ReturnsAsAlone ==
  /\ \A c \in CallIds :
        calls.act[c].pc = "done" => calls.act[c].ret = Alone(calls.act[c].fn, calls.act[c].args)
  /\ \A c \in CallIds : \A o \in CallIds :
        (/\ calls.act[c].pc = "done" /\ calls.act[o].pc = "done"
         /\ calls.act[c].fn = calls.act[o].fn /\ calls.act[c].args = calls.act[o].args)
          => calls.act[c].ret = calls.act[o].ret

C18_ArgumentsKept ==
  \A c \in CallIds :
     (calls.act[c].pc = "running" /\ calls'.act[c].pc # "idle")
       => calls'.act[c].args = calls.act[c].args

C18_NoCrossCallState == []C18_ReturnsAsAlone /\ [][C18_ArgumentsKept]_vars

\* invocation 1 of processTimeSeriesData has returned two entries while
\* invocation 2, on another series, is inside its loop
C18_Witness ==
  /\ calls.act[1].fn = "processTimeSeriesData" /\ calls.act[1].pc = "done"
  /\ Len(calls.act[1].ret.list) = 2
  /\ calls.act[2].fn = "processTimeSeriesData" /\ calls.act[2].pc = "running"
  /\ calls.act[2].args.frames # calls.act[1].args.frames
  /\ calls.locals[2].j = 2
  /\ Len(calls.locals[2].dailyData) = 1

(***************************************************************************)
(* C19: when the series are not empty and every one of them lacks a time   *)
(* field or a number field, processTimeSeriesData returns the empty list   *)
(* and the panel shows its no-data state, not a heat map.                  *)
(***************************************************************************)
NoUsableSeries ==
  /\ Len(series) > 0
  /\ \A j \in 1..Len(series) : ~series[j].timeField \/ ~series[j].valueField

C19_NoUsableDataState ==
  NoUsableSeries => (heatmapData = <<>> /\ view = "noData")

(***************************************************************************)
(* C20: after any changes of the data, the colour scheme, the custom       *)
(* colour, the theme, bucketMode and customBuckets, the table the panel    *)
(* hands to the renderer is getColorPalette of the current values of all   *)
(* of them, the maximum being that of the current daily values.            *)
(***************************************************************************)
CurrentMaximum ==
  LET data == processTimeSeriesData(series, aggregation, "")
  IN IF Len(data) = 0 THEN Finite(0)
     ELSE Finite(CHOOSE c \in {data[k].count : k \in 1..Len(data)} :
                    \A k \in 1..Len(data) : data[k].count <= c)

C20_TableOfCurrentInputs ==
  colors = getColorPalette(argScheme, argTheme, CurrentMaximum, argCustomColor,
                           argBucketMode, argCustomBuckets)

(***************************************************************************)
(* C21: in custom mode with valid edges [0, b1, b2, b3] and                *)
(* b1' = max(b1, 0.01+eps) the returned table has exactly the keys 0,      *)
(* 0.01, 0.01+eps, b1', b2, b3 and Number.MAX_SAFE_INTEGER, mapped to      *)
(* empty, empty, level1, level1, level2, level3, level4; a value in        *)
(* [0.01, b1') resolves to level1, in [b1', b2) to level2, in [b2, b3) to  *)
(* level3 and from b3 on to level4.                                        *)
(***************************************************************************)
\* the edge b_k of a valid list, k = 0..3
EdgeOf(cb, k) == Key(NumberOf(cb[k + 1])[2])

IsValidCustomCall == argBucketMode = "custom" /\ ~InvalidEdgeList(argCustomBuckets)

FirstUpperOf(cb) == KeyMax(EdgeOf(cb, 1), KeyPlus(MIN_COLORED_VALUE, MIN_EPS))

C21_CustomTable ==
  IsValidCustomCall =>
     LET b1p == FirstUpperOf(argCustomBuckets)
         b2 == EdgeOf(argCustomBuckets, 2)
         b3 == EdgeOf(argCustomBuckets, 3)
     IN /\ DOMAIN palette = {Key(0), MIN_COLORED_VALUE, KeyPlus(MIN_COLORED_VALUE, MIN_EPS),
                             b1p, b2, b3, MAX_SAFE_INTEGER}
        /\ palette[Key(0)] = EmptyColor
        /\ palette[MIN_COLORED_VALUE] = EmptyColor
        /\ palette[KeyPlus(MIN_COLORED_VALUE, MIN_EPS)] = Level(1)
        /\ palette[b1p] = Level(1)
        /\ palette[b2] = Level(2)
        /\ palette[b3] = Level(3)
        /\ palette[MAX_SAFE_INTEGER] = Level(4)
        /\ \A v \in Probes :
              v >= 10 =>
                pickColor(palette, Key(v)) =
                  IF KeyLess(Key(v), b1p) THEN Level(1)
                  ELSE IF KeyLess(Key(v), b2) THEN Level(2)
                  ELSE IF KeyLess(Key(v), b3) THEN Level(3)
                  ELSE Level(4)

(***************************************************************************)
(* C22: in auto mode, safeMax = max(0, ceil(maxCount)) with NaN and        *)
(* +/-Infinity taken as 0; the four level keys are                         *)
(* k1 = max(2, round(0.25 * safeMax) + 1) and                              *)
(* k_i = max(k_(i-1) + 1, round(f_i * safeMax) + 1) for f = 0.50, 0.75,    *)
(* 1.00; they are distinct, increasing, at least 2 and k4 > maxCount; for  *)
(* safeMax = 0 they are exactly 2, 3, 4, 5.                                *)
(***************************************************************************)
\* max(0, ceil(m / 1000)): the least natural number n with 1000 * n >= m
SafeMax(maxCount) ==
  IF maxCount[1] # "finite" THEN 0
  ELSE CHOOSE n \in 0..20 : 1000 * n >= maxCount[2] /\ (n = 0 \/ 1000 * (n - 1) < maxCount[2])

\* round(q / 4): the integer r with r - 1/2 <= q / 4 < r + 1/2
RoundQuarters(q) == CHOOSE r \in 0..20 : 4 * r - 2 <= q /\ q < 4 * r + 2

Larger(a, b) == IF a > b THEN a ELSE b

RECURSIVE LevelKey(_, _)
LevelKey(safeMax, i) ==
  IF i = 1 THEN Larger(2, RoundQuarters(safeMax) + 1)
  ELSE Larger(LevelKey(safeMax, i - 1) + 1, RoundQuarters(i * safeMax) + 1)

IsAutoCall == argBucketMode = "auto"

C23_MaximumIsLevel4 ==
  (IsAutoCall /\ IsFinite(argMaxCount) /\ argMaxCount[2] >= 10) =>
     pickColor(palette, Key(argMaxCount[2])) = Level(4)

(***************************************************************************)
(* C24: a customBuckets string is accepted if and only if the numbers it   *)
(* splits into on commas are exactly 4, all finite, the first equal to 0   *)
(* and each strictly greater than its predecessor; every other string is   *)
(* rejected.  Accepted: custom mode builds the table of the edges;         *)
(* rejected: it builds the table of auto mode.                             *)
(***************************************************************************)
\* the entries between the commas that are not blank
IsEntry(p) == p \notin {"", " "}
EntriesOfString(cb) == SelectSeq(cb, IsEntry)

\* the number an entry spells; blanks around it do not count
EntryNumber(p) == NumberOf(IF p = " 1" THEN "1" ELSE p)

IsAcceptable(cb) ==
  LET es == EntriesOfString(cb)
  IN /\ Len(es) = 4
     /\ \A k \in 1..4 : EntryNumber(es[k])[1] = "finite"
     /\ EntryNumber(es[1]) = Finite(0)
     /\ \A k \in 2..4 : EntryNumber(es[k])[2] > EntryNumber(es[k - 1])[2]

ChannelsOf(cc) ==
  LET byte(n) == IF n > 255 THEN 255 ELSE n
  IN IF cc.format = "#RGB" THEN <<17 * cc.c1, 17 * cc.c2, 17 * cc.c3>>
     ELSE IF cc.format = "#RRGGBB" THEN <<cc.c1, cc.c2, cc.c3>>
     ELSE <<byte(cc.c1), byte(cc.c2), byte(cc.c3)>>

\* round(q / 100): the integer r with r - 1/2 <= q / 100 < r + 1/2
RoundHundredths(q) == CHOOSE r \in 0..255 : 100 * r - 50 <= q /\ q < 100 * r + 50

\* the channels of a level of the legend
LevelChannels(color) == <<color.r, color.g, color.b>>

\* the same colour written as rgb(), without the alpha
WithoutAlpha(cc) == [format |-> "rgb()", c1 |-> cc.c1, c2 |-> cc.c2, c3 |-> cc.c3]

IsLightCustomCall ==
  argScheme = "custom" /\ IsParseableColor(argCustomColor) /\ ~argTheme.isDark

C25_CustomLevels ==
  IsLightCustomCall =>
     LET c == ChannelsOf(argCustomColor)
         lv == [i \in 1..4 |-> LevelChannels(legendColors[1 + i])]
     IN /\ \A ch \in 1..3 :
             /\ c[ch] \in 0..255
             /\ lv[1][ch] = RoundHundredths(100 * c[ch] + (255 - c[ch]) * 70)
             /\ lv[2][ch] = RoundHundredths(100 * c[ch] + (255 - c[ch]) * 45)
             /\ lv[3][ch] = RoundHundredths(85 * c[ch])
             /\ lv[4][ch] = RoundHundredths(65 * c[ch])
             /\ \A i \in 1..4 : lv[i][ch] \in 0..255
             /\ lv[1][ch] >= lv[2][ch] /\ lv[2][ch] >= c[ch]
             /\ c[ch] >= lv[3][ch] /\ lv[3][ch] >= lv[4][ch]
        /\ \A i \in 1..4 : palette[written[3 + i]] = legendColors[1 + i]
        /\ argCustomColor.format = "rgba()" =>
             /\ legendColors = getLegendColors(argScheme, argTheme, WithoutAlpha(argCustomColor))
             /\ palette = getColorPalette(argScheme, argTheme, argMaxCount,
                                          WithoutAlpha(argCustomColor), argBucketMode,
                                          argCustomBuckets)

\* 'rgba(250, 10, 30, 0.25)' under the light theme: level1 red 253.5 is
\* rounded to 254, level3 green 8.5 to 9, level4 blue 19.5 to 20
C25_Witness ==
  /\ IsLightCustomCall
  /\ argCustomColor = [format |-> "rgba()", c1 |-> 250, c2 |-> 10, c3 |-> 30, alpha |-> 25]
  /\ legendColors[2].r = 254
  /\ legendColors[4].g = 9
  /\ legendColors[5].b = 20

(***************************************************************************)
(* C26: no entry returned by processTimeSeriesData has a stored count of 0 *)
(* or in [0, 0.01): every stored count is negative or at least 0.01.       *)
(***************************************************************************)
C26_NoStoredZero ==
  \A k \in 1..Len(result) : result[k].count < 0 \/ result[k].count >= 10

(***************************************************************************)
(* C27: processTimeSeriesData puts each observation on the civil date of   *)
(* its instant in the timeZone argument, two observations sharing an entry *)
(* exactly when those dates are equal; and the panel passes the            *)
(* dashboard's timezone on every aggregation: the daily values it renders  *)
(* are those of processTimeSeriesData for that timezone.                   *)
(***************************************************************************)
C27_DashboardZoneDecidesDay ==
  LET out == processTimeSeriesData(series, aggregation, timeZone)
  IN /\ \A k \in 1..Len(out) : \E p \in ValidPositions : out[k].date = DayOf(InstantAt(p))
     /\ \A k \in 1..Len(out) : \A l \in 1..Len(out) : out[k].date = out[l].date => k = l
     /\ heatmapData = out

(***************************************************************************)
(* C28: the level selected by the renderer's rule is monotone in the       *)
(* value: in every table returned by getColorPalette (auto mode, or custom *)
(* mode with a valid edge list), for all values 0 <= v1 <= v2 below the    *)
(* largest key the level of v1 (empty = 0, level1..level4 = 1..4) is not   *)
(* greater than the level of v2.                                           *)
(***************************************************************************)
LevelIndex(color) == IF color = EmptyColor THEN 0 ELSE CHOOSE i \in 1..4 : Level(i) = color

LevelOfValue(v) == LevelIndex(pickColor(palette, Key(v)))

C28_LevelMonotone ==
  (IsAutoCall \/ IsValidCustomCall) =>
     \A v1 \in Probes : \A v2 \in Probes :
        (v1 <= v2 /\ KeyLess(Key(v2), LargestKey(palette))) =>
           LevelOfValue(v1) <= LevelOfValue(v2)

(***************************************************************************)
(* C29: a negative aggregated value is kept as a present day entry; every  *)
(* negative value resolves to the empty colour in every table returned by  *)
(* getColorPalette, key 0 being the smallest key strictly greater than it; *)
(* a negative maximum yields the table of the maximum 0.                   *)
(***************************************************************************)
\* the civil day of an instant as the panel's call resolves it
PanelDayOf(t) == dateTimeFormat(t, "")
PanelDays == {PanelDayOf(t) : t \in Instants}
PanelGroupOf(day) == {p \in ValidPositions : PanelDayOf(InstantAt(p)) = day}

\* the tables for the panel's arguments: auto mode and custom mode
TablesFor(maxCount) ==
  {getColorPalette(argScheme, argTheme, maxCount, argCustomColor, "auto", AbsentString)}
    \cup {getColorPalette(argScheme, argTheme, maxCount, argCustomColor, "custom", cb) :
            cb \in ValidEdgeStrings}

C29_NegativeKeptAndEmpty ==
  /\ aggregation \in KnownAggregations =>
       \A day \in PanelDays :
          (PanelGroupOf(day) # {} /\ Expected(PanelGroupOf(day), aggregation).n < 0) =>
             \E k \in 1..Len(heatmapData) :
                /\ heatmapData[k].date = day
                /\ heatmapData[k].count <= 0
                /\ IsRoundedTieUp(heatmapData[k].count, Expected(PanelGroupOf(day), aggregation))
  /\ \A k \in 1..Len(heatmapData) :
        heatmapData[k].count < 0 =>
           \A table \in TablesFor(maxValue) \cup {colors} :
              LET v == Key(heatmapData[k].count)
              IN /\ Key(0) \in KeysAbove(table, v)
                 /\ \A l \in KeysAbove(table, v) : l = Key(0) \/ KeyLess(Key(0), l)
                 /\ pickColor(table, v) = canvas(argTheme)
  /\ (IsFinite(maxValue) /\ maxValue[2] < 0) =>
        /\ colors = panelColors(argScheme, argTheme, Finite(0), argCustomColor)
        /\ TablesFor(maxValue) = TablesFor(Finite(0))

\* two days, -1.5 and -0.125: both kept, the maximum is -0.12
C29_Witness ==
  /\ aggregation = "sum"
  /\ Len(heatmapData) = 2
  /\ heatmapData[1].count = -1500
  /\ heatmapData[2].count = -120
  /\ maxValue = Finite(-120)
  /\ pickColor(colors, Key(-1500)) = canvas(argTheme)

(***************************************************************************)
(* C30: with weekStart 'monday' and seven labels in Sunday-first order the *)
(* labels handed to the renderer are the input rotated left by one, and    *)
(* every day is drawn in the row labelled with its true weekday, Sunday in *)
(* the last row; with weekStart 'sunday', or for a list that does not have *)
(* exactly 7 entries, the labels are passed through unchanged.             *)
(***************************************************************************)
\* the seven labels in Sunday-first order that the options select
SunFirstLabels ==
  IF weekLabelOptions.weekLabelMode = "number" THEN <<"1", "2", "3", "4", "5", "6", "7">>
  ELSE IF weekLabelOptions.weekLabelMode = "custom"
          /\ Len(SelectSeq(weekLabelOptions.weekLabelCustom, NonEmpty)) = 7
       THEN SelectSeq(weekLabelOptions.weekLabelCustom, NonEmpty)
  ELSE <<"Sun", "Mon", "Tue", "Wed", "Thu", "Fri", "Sat">>

\* the weekday of the day a date string names, Sunday = 0
TrueWeekday(date) == (DayNumberOf(date) + 4) % 7

C30_LabelsAgreeWithShift ==
  /\ weekLabelOptions.showWeekLabels =>
       /\ weekStart = "monday" =>
            weekLabels = [i \in 1..7 |-> SunFirstLabels[(i % 7) + 1]]
       /\ weekStart = "sunday" => weekLabels = SunFirstLabels
       /\ \A k \in 1..Len(heatmapData) :
            LET row == getDay(parseAnyYMD(shiftedHeatmapData[k].date)[1])
                weekday == TrueWeekday(heatmapData[k].date)
            IN /\ weekLabels[row + 1] = SunFirstLabels[weekday + 1]
               /\ (weekStart = "monday" /\ weekday = 0) => row = 6
  /\ \A o \in LabelOptions :
        Len(splitCsv(o.weekLabelCustom)) # 7 =>
           rotateWeek(splitCsv(o.weekLabelCustom), weekStart) = splitCsv(o.weekLabelCustom)

====
